---- MODULE Spec2Model ----
(***************************************************************************)
(* Model of src/stock.py: the per-ticker loop of the dashboard script      *)
(* (fetch, 20-day SMA / Bollinger bands, 14-day RSI, oversold scan,        *)
(* BUY/SELL/HOLD classification, charts) and the final rendering.          *)
(*                                                                         *)
(* Prices are integers (price units); every derived quantity is kept as an *)
(* exact number  num / (den + eps * 10^-EpsExp)  so that the 1e-10 added   *)
(* to the RSI denominator on line 71 is carried exactly.  A missing value  *)
(* (pandas NaN) is the number with nan = TRUE; every comparison with it is *)
(* FALSE, as in pandas.                                                    *)
(***************************************************************************)
EXTENDS Integers, Sequences, FiniteSets, TLC

\* ---------------------------------------------------------------- constants
SmaWindow == 20
RsiWindow == 14
BandK == 2
MinBars == 20
OverboughtLevel == 70
OversoldLevel == 30
MidLow == 40
MidHigh == 60
EpsExp == 10

\* ------------------------------------------------------------------- bounds
MaxTickers == 2
MaxStep == 2
BasePrice == 100

\* ------------------------------------------------------------------ numbers
Num(n, d, e) == [nan |-> FALSE, num |-> n, den |-> d, eps |-> e]

NaN == [nan |-> TRUE, num |-> 0, den |-> 1, eps |-> 0]

IntNum(x) == Num(x, 1, 0)

Sgn(x) == IF x > 0 THEN 1 ELSE IF x < 0 THEN -1 ELSE 0

\* sign of k * 10^e - m, for k > 0 and m > 0, without forming k * 10^e
RECURSIVE ScaleCmp(_, _, _)
ScaleCmp(k, e, m) ==
    IF e = 0 THEN Sgn(k - m)
    ELSE IF k > m THEN 1
    ELSE ScaleCmp(10 * k, e - 1, m)

\* sign of k * 10^e - m
SignPow10(k, e, m) ==
    IF k = 0 THEN Sgn(0 - m)
    ELSE IF k > 0 THEN (IF m <= 0 THEN 1 ELSE ScaleCmp(k, e, m))
    ELSE (IF m >= 0 THEN -1 ELSE 0 - ScaleCmp(0 - k, e, 0 - m))

\* sign of a - b for two defined numbers (denominators are positive)
Cmp(a, b) ==
    SignPow10(a.num * b.den - b.num * a.den, EpsExp,
              b.num * a.eps - a.num * b.eps)

GT(a, b) == ~a.nan /\ ~b.nan /\ Cmp(a, b) = 1
LT(a, b) == ~a.nan /\ ~b.nan /\ Cmp(a, b) = -1
GE(a, b) == ~a.nan /\ ~b.nan /\ Cmp(a, b) >= 0
LE(a, b) == ~a.nan /\ ~b.nan /\ Cmp(a, b) <= 0
EQ(a, b) == ~a.nan /\ ~b.nan /\ Cmp(a, b) = 0

\* ----------------------------------------------------------- series helpers
\* a pandas Series holds its values: the sequence is built once, not per access
Series(f) == SubSeq(f, 1, Len(f))

Column(closes) == Series([i \in 1..Len(closes) |-> IntNum(closes[i])])

\* Series.diff(): the first element has no predecessor and is NaN
Diff(xs) ==
    Series([i \in 1..Len(xs) |->
        IF i = 1 \/ xs[i].nan \/ xs[i - 1].nan THEN NaN
        ELSE IntNum(xs[i].num - xs[i - 1].num)])

\* delta.where(delta > 0, 0): keep where the condition holds, else 0
Gain(delta) ==
    Series([i \in 1..Len(delta) |->
        IF GT(delta[i], IntNum(0)) THEN delta[i] ELSE IntNum(0)])

\* -delta.where(delta < 0, 0)
Loss(delta) ==
    Series([i \in 1..Len(delta) |->
        IF LT(delta[i], IntNum(0)) THEN IntNum(0 - delta[i].num) ELSE IntNum(0)])

Squares(xs) ==
    Series([i \in 1..Len(xs) |->
        IF xs[i].nan THEN NaN ELSE IntNum(xs[i].num * xs[i].num)])

\* Series.rolling(window=w): sliding window that adds the entering value and
\* removes the leaving one, counting the non-NaN observations in the window
RECURSIVE RollFrom(_, _, _, _, _, _)
RollFrom(xs, w, i, sum, nobs, out) ==
    IF i > Len(xs) THEN out
    ELSE LET add == xs[i]
             s1 == IF add.nan THEN sum ELSE sum + add.num
             n1 == IF add.nan THEN nobs ELSE nobs + 1
             rem == IF i > w THEN xs[i - w] ELSE NaN
             s2 == IF rem.nan THEN s1 ELSE s1 - rem.num
             n2 == IF rem.nan THEN n1 ELSE n1 - 1
         IN  RollFrom(xs, w, i + 1, s2, n2,
                      Append(out, [sum |-> s2, nobs |-> n2]))

Rolling(xs, w) == RollFrom(xs, w, 1, 0, 0, <<>>)

\* the mean of each window: defined once w observations are in the window
MeanOf(r, w) ==
    Series([i \in 1..Len(r) |->
        IF r[i].nobs < w THEN NaN ELSE Num(r[i].sum, r[i].nobs, 0)])

\* a window one bar short
RollingMeanShort(xs, w) == MeanOf(Rolling(xs, w - 1), w - 1)

\* .rolling(window=w).mean()
RollingMean(xs, w) == MeanOf(Rolling(xs, w), w)

\* the sample standard deviation (ddof = 1) of each window, kept as
\* v = n * sum(x^2) - sum(x)^2, the value being sqrt(v / (n * (n - 1)))
StdOf(r, q, w) ==
    Series([i \in 1..Len(r) |->
        IF r[i].nobs < w THEN [nan |-> TRUE, v |-> 0, n |-> 1]
        ELSE [nan |-> FALSE,
              v |-> r[i].nobs * q[i].sum - r[i].sum * r[i].sum,
              n |-> r[i].nobs]])

\* .rolling(window=w).std()
RollingStd(xs, w) == StdOf(Rolling(xs, w), Rolling(Squares(xs), w), w)

\* mean + k * std, kept as the pair (mean, k * sqrt(v / (n * (n - 1))))
Band(mean, k, std) ==
    IF mean.nan \/ std.nan
    THEN [nan |-> TRUE, mean |-> NaN, k |-> k, v |-> 0, n |-> 1]
    ELSE [nan |-> FALSE, mean |-> mean, k |-> k, v |-> std.v, n |-> std.n]

\* data['SMA20'] + 2 * data['STD20']
UpperBand(sma, std) ==
    Series([i \in 1..Len(sma) |-> Band(sma[i], BandK, std[i])])

\* data['SMA20'] - 2 * data['STD20']
LowerBand(sma, std) ==
    Series([i \in 1..Len(sma) |-> Band(sma[i], 0 - BandK, std[i])])

\* the division without the 1e-10: no value when the average loss is zero
RelStrengthUnguarded(ag, al) ==
    IF ag.nan \/ al.nan \/ al.num = 0 THEN NaN
    ELSE Num(ag.num * al.den, ag.den * al.num, 0)

\* avg_gain / (avg_loss + 1e-10)
\*   (ng/dg) / (nl/dl + eps) = ng*dl / (dg*nl + dg*dl*eps)
RelStrength(ag, al) ==
    IF ag.nan \/ al.nan THEN NaN
    ELSE Num(ag.num * al.den, ag.den * al.num, ag.den * al.den)

\* 100 - (100 / (1 + rs))
\*   for rs = n/(d + e*eps):  100 - 100*(d + e*eps)/(n + d + e*eps)
\*                          = 100*n / (n + d + e*eps)
RsiOf(rs) ==
    IF rs.nan THEN NaN ELSE Num(100 * rs.num, rs.num + rs.den, rs.eps)

RsiFrom(avg_gain, avg_loss) ==
    Series([i \in 1..Len(avg_gain) |->
        RsiOf(RelStrength(avg_gain[i], avg_loss[i]))])

\* average gain and average loss exchanged
RSIColumnSwapped(close) ==
    RsiFrom(RollingMean(Loss(Diff(close)), RsiWindow),
            RollingMean(Gain(Diff(close)), RsiWindow))

\* lines 66-72
RSIColumn(close) ==
    RsiFrom(RollingMean(Gain(Diff(close)), RsiWindow),
            RollingMean(Loss(Diff(close)), RsiWindow))

\* "{:.2f}" of a non-negative number, as an integer count of hundredths
Fmt2(x) ==
    IF x.nan THEN -1
    ELSE IF x.den = 0 THEN 0
    ELSE LET r0 == (200 * x.num + x.den) \div (2 * x.den)
             ok == SignPow10(2 * r0 * x.den - 200 * x.num - x.den, EpsExp,
                             x.eps * (1 - 2 * r0)) <= 0
         IN  IF ok THEN r0 ELSE r0 - 1

\* ------------------------------------------------------------ classification
Bullish == "Bullish (buy or hold)"
Bearish == "Bearish (sell or avoid)"
OverboughtSell == "Overbought (sell)"
OversoldCrossed == "Oversold (buy - just crossed below 30)"
OversoldBuy == "Oversold (buy)"
Neutral == "Neutral (no action)"

SmaSignal(close, sma) ==
    IF GT(close, sma) THEN Bullish ELSE Bearish

RsiSignal(rsi, prev) ==
    IF GT(rsi, IntNum(OverboughtLevel)) THEN OverboughtSell
    ELSE IF LT(rsi, IntNum(OversoldLevel)) /\ GE(prev, IntNum(OversoldLevel))
         THEN OversoldCrossed
    ELSE IF LT(rsi, IntNum(OversoldLevel)) THEN OversoldBuy
    ELSE Neutral

\* an exact match instead of the prefix test
IsOversoldBuy(text) == text = OversoldBuy

\* rsi_signal.startswith("Oversold"), over the four texts RsiSignal produces
StartsWithOversold(text) == text \in {OversoldCrossed, OversoldBuy}

\* the mid band without its upper end
RecommendationOpenBand(smaSig, rsiSig, rsi) ==
    IF StartsWithOversold(rsiSig)
       \/ (smaSig = Bullish /\ LE(IntNum(MidLow), rsi) /\ LT(rsi, IntNum(MidHigh)))
    THEN "BUY"
    ELSE IF rsiSig = OverboughtSell THEN "SELL"
    ELSE "HOLD"

Recommendation(smaSig, rsiSig, rsi) ==
    IF StartsWithOversold(rsiSig)
       \/ (smaSig = Bullish /\ LE(IntNum(MidLow), rsi) /\ LE(rsi, IntNum(MidHigh)))
    THEN "BUY"
    ELSE IF rsiSig = OverboughtSell THEN "SELL"
    ELSE "HOLD"

\* ------------------------------------------------------------------- inputs
TickerOptions == {"AAPL", "GOOGL", "TSLA"}

Periods == {"1mo", "3mo", "6mo", "1y"}

\* list(set(...)): the tickers without duplicates, in any order
RECURSIVE DistinctLists(_, _)
DistinctLists(S, n) ==
    IF n = 0 THEN {<<>>}
    ELSE {<<>>} \cup
         UNION {{<<t>> \o rest : rest \in DistinctLists(S \ {t}, n - 1)} : t \in S}

\* a close series starting at BasePrice whose day-to-day changes repeat the
\* pattern m1 up to bar sw and the pattern m2 after it
RECURSIVE GenFrom(_, _, _, _, _)
GenFrom(len, m1, sw, m2, out) ==
    IF Len(out) >= len THEN out
    ELSE IF out = <<>> THEN GenFrom(len, m1, sw, m2, <<BasePrice>>)
    ELSE LET j == Len(out) + 1
             m == IF j <= sw THEN m1 ELSE m2
             d == m[((j - 2) % Len(m)) + 1]
         IN  GenFrom(len, m1, sw, m2, Append(out, out[Len(out)] + d))

Gen(len, m1, sw, m2) == GenFrom(len, m1, sw, m2, <<>>)

Steps == (0 - MaxStep)..MaxStep

Motifs == {<<a>> : a \in Steps} \cup {<<a, b>> : a, b \in Steps}

\* bar counts offered by the data provider, and how many bars before the end
\* the pattern of changes switches
BarCounts == {0, 15, 19, 20, 21, 34, 35}

SwitchBack == {1, 5, 15}

\* the series the engine is exercised on
Family ==
    {Gen(len, m1, len - k, <<d>>) :
        len \in BarCounts, m1 \in Motifs, d \in Steps, k \in SwitchBack}

\* two series that agree on the last close, on the sum of the last 20 closes
\* and on the last 14 changes, and differ in the change just before those
Falling(from, n) == [i \in 1..n |-> from - (i - 1)]

CrossA == <<BasePrice + 20, BasePrice + 20, BasePrice + 20, BasePrice + 20,
            BasePrice + 14>> \o Falling(BasePrice + 20, 15)

CrossB == <<BasePrice + 18, BasePrice + 18, BasePrice + 18, BasePrice + 19,
            BasePrice + 21>> \o Falling(BasePrice + 20, 15)

\* the series offered when several tickers are analysed in one run
Market ==
    { <<>>,
      Gen(15, <<1>>, 15, <<1>>),
      Gen(35, <<1>>, 35, <<1>>),
      Gen(21, <<1, -1>>, 21, <<1>>),
      CrossA,
      CrossB }

\* -------------------------------------------------------------------- state
VARIABLES
    tickers,          \* the ticker list of this run
    period,           \* the selected data period
    cache,            \* results kept by st.cache_data for fetch_stock_data
    pos,              \* position of the for loop in tickers (1-based)
    pc,               \* place in the loop body
    stock_symbol,     \* loop variable
    data,             \* the frame of the ticker being analysed
    latest_close, latest_sma, sma_signal,
    latest_rsi, prev_rsi, rsi_signal,
    recommendation,
    recommendations,  \* the texts appended by the loop
    oversold_stocks,
    rec_df            \* rows of the exported recommendations table

vars == <<tickers, period, cache, pos, pc, stock_symbol, data, latest_close,
          latest_sma, sma_signal, latest_rsi, prev_rsi, rsi_signal,
          recommendation, recommendations, oversold_stocks, rec_df>>

locals == <<latest_close, latest_sma, sma_signal, latest_rsi, prev_rsi,
            rsi_signal, recommendation>>

\* the frame returned by stock.history(): closes under a datetime index
Frame(closes) ==
    [Close |-> closes, index |-> "datetime", SMA20 |-> <<>>, STD20 |-> <<>>,
     UpperBB |-> <<>>, LowerBB |-> <<>>, RSI |-> <<>>]

\* the guard without the length test
OnlyEmpty(closes) == Len(closes) = 0

\* data.empty or len(data) < 20
Insufficient(closes) == Len(closes) = 0 \/ Len(closes) < MinBars

\* f"{stock_symbol}: No data"
NoDataEntry(sym) ==
    [ticker |-> sym, rec |-> "No data", sma |-> "", rsi_text |-> -1,
     rsi_signal |-> "", error |-> ""]

\* f"{stock_symbol}: Error ({e})"
ErrorEntry(sym, e) ==
    [ticker |-> sym, rec |-> "Error", sma |-> "", rsi_text |-> -1,
     rsi_signal |-> "", error |-> e]

\* f"{stock_symbol}: {recommendation} (SMA: {sma_signal}, RSI: {latest_rsi:.2f} ({rsi_signal}))"
SignalEntry(sym, rec, smaSig, rsi, rsiSig) ==
    [ticker |-> sym, rec |-> rec, sma |-> smaSig, rsi_text |-> Fmt2(rsi),
     rsi_signal |-> rsiSig, error |-> ""]

\* r.split(": ", 1)
SplitEntry(e) ==
    [Ticker |-> e.ticker,
     Recommendation |-> [rec |-> e.rec, sma |-> e.sma, rsi_text |-> e.rsi_text,
                         rsi_signal |-> e.rsi_signal, error |-> e.error]]

Init ==
    /\ tickers \in DistinctLists(TickerOptions, MaxTickers)
    /\ period \in Periods
    /\ cache = <<>>
    /\ pos = 1
    /\ pc = "fetch"
    /\ stock_symbol = ""
    /\ data = Frame(<<>>)
    /\ latest_close = NaN
    /\ latest_sma = NaN
    /\ sma_signal = ""
    /\ latest_rsi = NaN
    /\ prev_rsi = NaN
    /\ rsi_signal = ""
    /\ recommendation = ""
    /\ recommendations = <<>>
    /\ oversold_stocks = <<>>
    /\ rec_df = <<>>

\* lines 45-56: fetch_stock_data raises
FetchError ==
    /\ pc = "fetch"
    /\ pos <= Len(tickers)
    /\ stock_symbol' = tickers[pos]
    /\ recommendations' = Append(recommendations, ErrorEntry(tickers[pos], "fetch"))
    /\ pos' = pos + 1
    /\ UNCHANGED <<tickers, period, cache, pc, data, locals, oversold_stocks, rec_df>>

\* lines 45-52: the fetched frame is empty or shorter than 20 bars
FetchNoData(pool) ==
    /\ pc = "fetch"
    /\ pos <= Len(tickers)
    /\ \E closes \in pool :
        /\ Insufficient(closes)
        /\ data' = Frame(closes)
        /\ cache' = Append(cache, [symbol |-> tickers[pos], period |-> period,
                                   Close |-> closes])
    /\ stock_symbol' = tickers[pos]
    /\ recommendations' = Append(recommendations, NoDataEntry(tickers[pos]))
    /\ pos' = pos + 1
    /\ UNCHANGED <<tickers, period, pc, locals, oversold_stocks, rec_df>>

\* lines 45-49: the fetched frame has at least 20 bars
FetchOk(pool) ==
    /\ pc = "fetch"
    /\ pos <= Len(tickers)
    /\ \E closes \in pool :
        /\ ~Insufficient(closes)
        /\ data' = Frame(closes)
        /\ cache' = Append(cache, [symbol |-> tickers[pos], period |-> period,
                                   Close |-> closes])
    /\ stock_symbol' = tickers[pos]
    /\ pc' = "indicators"
    /\ UNCHANGED <<tickers, period, pos, locals, recommendations,
                   oversold_stocks, rec_df>>

\* lines 60-63
WithBands(frame, sma, std) ==
    [frame EXCEPT !.SMA20 = sma, !.STD20 = std,
                  !.UpperBB = UpperBand(sma, std),
                  !.LowerBB = LowerBand(sma, std)]

\* lines 59-72
WithColumns(frame, close) ==
    [WithBands(frame, RollingMean(close, SmaWindow), RollingStd(close, SmaWindow))
     EXCEPT !.RSI = RSIColumn(close)]

WithIndicators(frame) == WithColumns(frame, Column(frame.Close))

Indicators ==
    /\ pc = "indicators"
    /\ data' = WithIndicators(data)
    /\ pc' = "display"
    /\ UNCHANGED <<tickers, period, cache, pos, stock_symbol, locals,
                   recommendations, oversold_stocks, rec_df>>

\* data[data['RSI'] < 30]
OversoldDays(frame) ==
    {i \in 1..Len(frame.RSI) : LT(frame.RSI[i], IntNum(OversoldLevel))}

\* lines 74-92: index to text, tables, oversold list, download button
Display ==
    /\ pc = "display"
    /\ data' = [data EXCEPT !.index = "str"]
    /\ oversold_stocks' =
          IF OversoldDays(data) # {} THEN Append(oversold_stocks, stock_symbol)
          ELSE oversold_stocks
    /\ pc' = "signal"
    /\ UNCHANGED <<tickers, period, cache, pos, stock_symbol, locals,
                   recommendations, rec_df>>

\* lines 74-79 and 157-159: rendering the table raises
DisplayError ==
    /\ pc = "display"
    /\ data' = [data EXCEPT !.index = "str"]
    /\ recommendations' = Append(recommendations, ErrorEntry(stock_symbol, "display"))
    /\ pos' = pos + 1
    /\ pc' = "fetch"
    /\ UNCHANGED <<tickers, period, cache, stock_symbol, locals,
                   oversold_stocks, rec_df>>

\* data[col].iloc[-1] and .iloc[-2]
Last(col) == col[Len(col)]

Prev(col, latest) == IF Len(col) > 1 THEN col[Len(col) - 1] ELSE latest

\* lines 94-118
Signal ==
    /\ pc = "signal"
    /\ latest_close' = IntNum(Last(data.Close))
    /\ latest_sma' = Last(data.SMA20)
    /\ sma_signal' = SmaSignal(latest_close', latest_sma')
    /\ latest_rsi' = Last(data.RSI)
    /\ prev_rsi' = Prev(data.RSI, latest_rsi')
    /\ rsi_signal' = RsiSignal(latest_rsi', prev_rsi')
    /\ recommendation' = Recommendation(sma_signal', rsi_signal', latest_rsi')
    /\ recommendations' =
          Append(recommendations,
                 SignalEntry(stock_symbol, recommendation', sma_signal',
                             latest_rsi', rsi_signal'))
    /\ pc' = "charts"
    /\ UNCHANGED <<tickers, period, cache, pos, stock_symbol, data,
                   oversold_stocks, rec_df>>

\* data.resample('W') needs a datetime-like index
NeedsResample == period = "1y"

CanResample(frame) == frame.index = "datetime"

\* lines 120-155: charts drawn
Charts ==
    /\ pc = "charts"
    /\ NeedsResample => CanResample(data)
    /\ pos' = pos + 1
    /\ pc' = "fetch"
    /\ UNCHANGED <<tickers, period, cache, stock_symbol, data, locals,
                   recommendations, oversold_stocks, rec_df>>

\* lines 121 and 157-159: resample raises on the text index
ChartsError ==
    /\ pc = "charts"
    /\ NeedsResample /\ ~CanResample(data)
    /\ recommendations' = Append(recommendations, ErrorEntry(stock_symbol, "resample"))
    /\ pos' = pos + 1
    /\ pc' = "fetch"
    /\ UNCHANGED <<tickers, period, cache, stock_symbol, data, locals,
                   oversold_stocks, rec_df>>

\* lines 161-180: lists rendered, recommendations table exported
Finish ==
    /\ pc = "fetch"
    /\ pos > Len(tickers)
    /\ rec_df' = IF recommendations # <<>>
                 THEN [i \in 1..Len(recommendations) |-> SplitEntry(recommendations[i])]
                 ELSE rec_df
    /\ pc' = "done"
    /\ UNCHANGED <<tickers, period, cache, pos, stock_symbol, data, locals,
                   recommendations, oversold_stocks>>

Next ==
    \/ FetchError
    \/ FetchNoData(Market)
    \/ FetchOk(Market)
    \/ Indicators
    \/ Display
    \/ DisplayError
    \/ Signal
    \/ Charts
    \/ ChartsError
    \/ Finish

Spec == Init /\ [][Next]_vars

\* one ticker, any series of the family
EngineInit ==
    /\ Init
    /\ tickers = <<"AAPL">>
    /\ period \in {"6mo", "1y"}

EngineNext ==
    \/ FetchError
    \/ FetchNoData(Family)
    \/ FetchOk(Family)
    \/ Indicators
    \/ Display
    \/ DisplayError
    \/ Signal
    \/ Charts
    \/ ChartsError
    \/ Finish

EngineSpec == EngineInit /\ [][EngineNext]_vars

\* the classification of lines 94-118 applied to any last-bar values: the
\* close against a 20-day average of BasePrice, and RSI values on and around
\* the thresholds, for the last bar and the one before it
RsiGrid ==
    {IntNum(r) : r \in {0, 29, 30, 31, 39, 40, 41, 50, 59, 60, 61, 69, 70, 71, 100}}

CloseGrid == {BasePrice - 1, BasePrice, BasePrice + 1}

LastBars(c, r, p) ==
    [Close |-> <<BasePrice, c>>, index |-> "str",
     SMA20 |-> <<NaN, Num(SmaWindow * BasePrice, SmaWindow, 0)>>,
     STD20 |-> <<>>, UpperBB |-> <<>>, LowerBB |-> <<>>, RSI |-> <<p, r>>]

ClassifyInit ==
    /\ tickers = <<"AAPL">>
    /\ period = "6mo"
    /\ cache = <<>>
    /\ pos = 1
    /\ pc = "signal"
    /\ stock_symbol = "AAPL"
    /\ \E c \in CloseGrid, r \in RsiGrid, p \in RsiGrid : data = LastBars(c, r, p)
    /\ latest_close = NaN
    /\ latest_sma = NaN
    /\ sma_signal = ""
    /\ latest_rsi = NaN
    /\ prev_rsi = NaN
    /\ rsi_signal = ""
    /\ recommendation = ""
    /\ recommendations = <<>>
    /\ oversold_stocks = <<>>
    /\ rec_df = <<>>

ClassifyNext == Signal

ClassifySpec == ClassifyInit /\ [][ClassifyNext]_vars

\* ------------------------------------------------------------------- claims
Signals == {"BUY", "SELL", "HOLD"}

EntriesOf(sym) ==
    {i \in 1..Len(recommendations) : recommendations[i].ticker = sym}

RECURSIVE SumRange(_, _, _)
SumRange(xs, a, b) == IF a > b THEN 0 ELSE xs[a] + SumRange(xs, a + 1, b)

StrictlyIncreasing(xs) == \A i \in 2..Len(xs) : xs[i] > xs[i - 1]

StrictlyDecreasing(xs) == \A i \in 2..Len(xs) : xs[i] < xs[i - 1]

ConstantSeries(xs) == \A i \in 2..Len(xs) : xs[i] = xs[i - 1]

\* the rule as the specification words it: SELL first, then BUY, else HOLD
RuleSellFirst(close, sma, rsi) ==
    IF GT(rsi, IntNum(OverboughtLevel)) THEN "SELL"
    ELSE IF LT(rsi, IntNum(OversoldLevel))
            \/ (GT(close, sma) /\ GE(rsi, IntNum(MidLow)) /\ LE(rsi, IntNum(MidHigh)))
         THEN "BUY"
    ELSE "HOLD"

\* C1: once a ticker is classified, its recommendation is SELL if RSI > 70,
\* otherwise BUY if RSI < 30 or (close > SMA20 and 40 <= RSI <= 60), otherwise
\* HOLD, which is the result of testing the SELL rule before the BUY rule; the
\* text appended to recommendations carries that result.
C1_SellFirstRule ==
    /\ recommendation # "" =>
          recommendation = RuleSellFirst(latest_close, latest_sma, latest_rsi)
    /\ pc = "charts" =>
          recommendations[Len(recommendations)].rec = recommendation

C1_Witness ==
    /\ pc = "charts"
    /\ EQ(latest_rsi, IntNum(MidHigh))
    /\ sma_signal = Bullish
    /\ recommendation = "BUY"

\* C2: for a constant close series the RSI at the last bar is exactly 50, the
\* SMA20 equals the close, the SMA signal is Bearish and the recommendation
\* is HOLD.
C2_ConstantGivesFifty ==
    (pc = "charts" /\ ConstantSeries(data.Close)) =>
        /\ EQ(latest_rsi, IntNum(50))
        /\ EQ(latest_sma, latest_close)
        /\ sma_signal = Bearish
        /\ recommendation = "HOLD"

\* C3: for a strictly increasing series of 35 bars the last RSI is above 70,
\* the RSI signal is Overbought and the recommendation is SELL.
C3_IncreasingSells ==
    (pc = "charts" /\ Len(data.Close) = 35 /\ StrictlyIncreasing(data.Close)) =>
        /\ GT(latest_rsi, IntNum(OverboughtLevel))
        /\ rsi_signal = OverboughtSell
        /\ recommendation = "SELL"

C3_Witness ==
    /\ pc = "charts"
    /\ Len(data.Close) = 35
    /\ StrictlyIncreasing(data.Close)
    /\ sma_signal = Bullish
    /\ recommendation = "SELL"

\* C4: for a strictly decreasing series of 35 bars the last RSI is below 30
\* and the recommendation is BUY.
C4_DecreasingBuys ==
    (pc = "charts" /\ Len(data.Close) = 35 /\ StrictlyDecreasing(data.Close)) =>
        /\ LT(latest_rsi, IntNum(OversoldLevel))
        /\ recommendation = "BUY"

C4_Witness ==
    /\ pc = "charts"
    /\ Len(data.Close) = 35
    /\ StrictlyDecreasing(data.Close)
    /\ recommendation = "BUY"

\* C5: a ticker whose fetched series is empty or shorter than 20 bars gets the
\* "No data" text and nothing else, no indicator column is computed on its
\* frame and it is not in the oversold list; a ticker with 20 bars or more
\* whose analysis ended without an error has a BUY, SELL or HOLD text.
C5_InsufficientData ==
    /\ Len(data.Close) < 20 => data.SMA20 = <<>> /\ data.RSI = <<>>
    /\ \A i \in 1..Len(cache) :
          LET sym == cache[i].symbol
              finished == stock_symbol # sym \/ pc \in {"fetch", "done"}
          IN  IF Len(cache[i].Close) < 20
              THEN /\ Cardinality(EntriesOf(sym)) = 1
                   /\ \A j \in EntriesOf(sym) : recommendations[j].rec = "No data"
                   /\ \A j \in 1..Len(oversold_stocks) : oversold_stocks[j] # sym
              ELSE (finished /\ \A j \in EntriesOf(sym) : recommendations[j].rec # "Error")
                      => \E j \in EntriesOf(sym) : recommendations[j].rec \in Signals

C5_Witness ==
    /\ pc = "done"
    /\ \E i, j \in 1..Len(cache) :
          /\ Len(cache[i].Close) = 15
          /\ \E k \in EntriesOf(cache[i].symbol) : recommendations[k].rec = "No data"
          /\ Len(cache[j].Close) >= 20
          /\ \E k \in EntriesOf(cache[j].symbol) : recommendations[k].rec \in Signals
          /\ \A k \in EntriesOf(cache[j].symbol) : recommendations[k].rec # "Error"

\* the recommendation the engine gives for a close series taken alone
FrameRecommendation(frame) ==
    Recommendation(SmaSignal(IntNum(Last(frame.Close)), Last(frame.SMA20)),
                   RsiSignal(Last(frame.RSI), Prev(frame.RSI, Last(frame.RSI))),
                   Last(frame.RSI))

\* C6: when the loop has finished, every ticker of the list has been visited,
\* each BUY/SELL/HOLD text is the one the ticker's own series gives, and a
\* ticker that failed (it has an Error or No data text) has no BUY/SELL/HOLD
\* text.
C6_FailuresIsolated ==
    pc = "done" =>
        /\ \A i \in 1..Len(tickers) : EntriesOf(tickers[i]) # {}
        /\ \A j \in 1..Len(recommendations) :
              recommendations[j].rec \in Signals =>
                  /\ \E i \in 1..Len(cache) :
                        /\ cache[i].symbol = recommendations[j].ticker
                        /\ ~Insufficient(cache[i].Close)
                        /\ recommendations[j].rec =
                              FrameRecommendation(WithIndicators(Frame(cache[i].Close)))
                  /\ \A k \in EntriesOf(recommendations[j].ticker) :
                        recommendations[k].rec \notin {"Error", "No data"}

\* C7: the RSI column is undefined at bar indexes 0..13 and defined from bar
\* index 14 on (positions 1..14 and 15.. of the column).
C7_RsiStartsAtFourteen ==
    \A i \in 1..Len(data.RSI) : data.RSI[i].nan <=> (i <= RsiWindow)

\* sign of (mean + k * std) - x
BandCmp(band, x) ==
    LET dn == IF band.mean.den = x.den THEN band.mean.num - x.num
              ELSE band.mean.num * x.den - x.num * band.mean.den
        dd == IF band.mean.den = x.den THEN x.den ELSE band.mean.den * x.den
        st == Sgn(band.k) * Sgn(band.v)
    IN  IF Sgn(dn) = 0 THEN st
        ELSE IF st = 0 \/ st = Sgn(dn) THEN Sgn(dn)
        ELSE Sgn(dn) * Sgn(dn * dn * band.n * (band.n - 1)
                            - band.k * band.k * band.v * dd * dd)

\* C8: at every bar the SMA20 is undefined before bar index 19 and otherwise
\* is the mean of the 20 closes ending at that bar; the Bollinger bands are
\* undefined exactly where the SMA20 is, and otherwise upper >= SMA20 >= lower.
C8_SmaAndBands ==
    \A i \in 1..Len(data.SMA20) :
        /\ data.SMA20[i].nan <=> (i < SmaWindow)
        /\ data.UpperBB[i].nan <=> data.SMA20[i].nan
        /\ data.LowerBB[i].nan <=> data.SMA20[i].nan
        /\ ~data.SMA20[i].nan =>
              /\ EQ(data.SMA20[i],
                    Num(SumRange(data.Close, i - SmaWindow + 1, i), SmaWindow, 0))
              /\ BandCmp(data.UpperBB[i], data.SMA20[i]) >= 0
              /\ BandCmp(data.LowerBB[i], data.SMA20[i]) <= 0

C8_Witness ==
    /\ Len(data.SMA20) = 35
    /\ BandCmp(data.UpperBB[35], data.SMA20[35]) = 1
    /\ BandCmp(data.LowerBB[35], data.SMA20[35]) = -1
    /\ data.SMA20[19].nan
    /\ ~data.SMA20[20].nan

\* C9: a classification that sees the same last close, SMA20 and RSI as the
\* one before it gives the same recommendation, whatever the previous bar's
\* RSI and the ticker are.
C9_SameInputsSameResult ==
    [][(/\ pc = "signal"
        /\ recommendation # ""
        /\ EQ(latest_close', latest_close)
        /\ EQ(latest_sma', latest_sma)
        /\ EQ(latest_rsi', latest_rsi))
       => recommendation' = recommendation]_vars

C9_Witness ==
    /\ pc = "charts"
    /\ Len(recommendations) >= 2
    /\ \E i \in 1..Len(recommendations) :
          /\ recommendations[i].ticker # stock_symbol
          /\ recommendations[i].rsi_signal = OversoldCrossed
          /\ recommendations[i].rec = "BUY"
          /\ \E j \in 1..Len(cache) :
                cache[j].symbol = recommendations[i].ticker /\ cache[j].Close = CrossA
    /\ data.Close = CrossB
    /\ rsi_signal = OversoldBuy
    /\ recommendation = "BUY"

\* C10: when the loop has finished, recommendations holds exactly one text per
\* ticker of the list, in processing order, each a BUY/SELL/HOLD, a "No data"
\* or an "Error" text, and the exported table has the same rows.
C10_OneEntryPerTicker ==
    pc = "done" =>
        /\ Len(recommendations) = Len(tickers)
        /\ \A i \in 1..Len(recommendations) :
              /\ i <= Len(tickers) => recommendations[i].ticker = tickers[i]
              /\ recommendations[i].rec \in Signals \cup {"No data", "Error"}
        /\ recommendations # <<>> =>
              /\ Len(rec_df) = Len(tickers)
              /\ \A i \in 1..Len(rec_df) :
                    i <= Len(tickers) => rec_df[i].Ticker = tickers[i]

====
